---- MODULE Spec2Model ----
(***************************************************************************)
(* Model of dragdev-studios/custom.py:                                     *)
(*   - QOLBot (dds/custom/bot.py): a job queue drained by one worker task, *)
(*     cancelled by close();                                               *)
(*   - wf_msg_or_reaction (ext.py): race of a message wait and a reaction  *)
(*     wait under a timeout;                                               *)
(*   - VerboseBot.__init__ (dds/custom/bot.py): validation of the logging  *)
(*     configuration;                                                      *)
(*   - VerboseBot event handlers, log() and _log_bg (dds/custom/bot.py);   *)
(*   - Mapping (ext.py): the dict whose missing keys read as "{key}".      *)
(* Each part has its own specification (SpecQ and FairSpecQ, SpecWf,       *)
(* SpecVB, SpecLog, SpecMap); the variables of the other parts stay at     *)
(* their initial values.                                                   *)
(***************************************************************************)
EXTENDS Naturals, Integers, Sequences, FiniteSets, TLC

VARIABLES
    \* ---- QOLBot ----
    botPc,          \* "new" | "ready" | "init_failed"
    hasLoop,        \* whether self.loop resolves before the base class is initialised
    argMaxQueueSize,\* the max_queue_size keyword: <<>> when absent, <<n>> when passed
    maxsize,        \* asyncio.Queue maxsize
    queue,          \* asyncio.Queue contents, oldest first
    unfinished,     \* asyncio.Queue unfinished-task counter
    enqueued,       \* history: jobs in the order they entered the queue
    started,        \* history: jobs in the order the worker began awaiting them
    jobStatus,      \* job -> "new" | "queued" | "running" | "returned" | "raised"
    queue_worker,   \* worker task: "none" | "scheduled" | "get" | "job" | "cancelled" | "failed"
    curJob,         \* the job the worker is awaiting (0 when none)
    closed,         \* close() has been called
    logged,         \* jobs whose failure the worker printed
    \* ---- wf_msg_or_reaction ----
    wfPc,           \* "off" | "start" | "waiting" | "done"
    timeoutArg,     \* the timeout argument: <<>> for None, <<n>> for n seconds
    checksArg,      \* "default" (no checks supplied) | "custom"
    clock,          \* seconds since the call
    taskState,      \* wait -> "none" | "pending" | "result" | "exception" | "cancelled"
    msgResult,      \* <<m>> once the message wait resolved to message m
    reactResult,    \* <<r>> once the reaction wait resolved to reaction r
    arrivals,       \* history: the waits in the order they completed
    waiter,         \* asyncio.wait's waiter: "idle" | "waiting" | "released"
    timerFired,     \* the timeout handle of asyncio.wait has fired
    outcome,        \* [kind |-> "none" | "return" | "raise", val |-> ...]
    \* ---- VerboseBot ----
    vbPc,           \* "off" | "new" | "constructed" | "type_error"
    log_channel,    \* the log_channel keyword: [ty |-> type name, truthy |-> bool(value)]
    log_events,     \* the log_events keyword: type name of the value, or "absent"
    baseInit,       \* commands.Bot.__init__ has run
    vbError,        \* message of the TypeError the constructor raised ("" when none)
    listeners,      \* listeners registered with add_listener
    \* ---- VerboseBot logging ----
    lgPc,           \* "off" | "on"
    logFlags,       \* self._logging_events: flag -> BOOLEAN
    channelCfg,     \* "none": no id configured | "missing": get_channel finds nothing | "found"
    perms,          \* the bot's permissions in the log channel
    ready,          \* is_ready()
    logChannel,     \* self._log_channel: "None" | "chan"
    webhooks,       \* number of webhooks of the log channel
    created,        \* number of webhooks the bot created
    lookups,        \* number of get_channel calls made by _log_bg
    logTasks,       \* task -> state of one _log_bg task
    lastEvent,      \* the event handled last ("none" before the first)
    lastLogged,     \* whether its handler called log()
    \* ---- ext.Mapping ----
    mpPc,           \* "off" | "idle" | "looked" | "formatted"
    mapStore,       \* the dict contents: key -> text
    mapBefore,      \* the dict contents before the last operation
    lastKey,        \* the key looked up last
    lastResult,     \* what the lookup returned
    template,       \* the replacement field formatted last
    formatted       \* what str.format_map produced for it

qvars == <<botPc, hasLoop, argMaxQueueSize, maxsize, queue, unfinished, enqueued,
           started, jobStatus, queue_worker, curJob, closed, logged>>

wfvars == <<wfPc, timeoutArg, checksArg, clock, taskState, msgResult, reactResult,
            arrivals, waiter, timerFired, outcome>>

vbvars == <<vbPc, log_channel, log_events, baseInit, vbError, listeners>>

lgvars == <<lgPc, logFlags, channelCfg, perms, ready, logChannel, webhooks, created,
            lookups, logTasks, lastEvent, lastLogged>>

mpvars == <<mpPc, mapStore, mapBefore, lastKey, lastResult, template, formatted>>

vars == <<qvars, wfvars, vbvars, lgvars, mpvars>>

(***************************************************************************)
(* Bounds                                                                  *)
(***************************************************************************)
MaxJobs == 3
MaxQueueArg == 2
MaxTimeout == 2
MaxLogs == 2

Jobs == 1..MaxJobs

(***************************************************************************)
(* QOLBot                                                                  *)
(***************************************************************************)
DefaultMaxQueueSize == 30

\* kwargs.pop("max_queue_size", 30)
PopMaxQueueSize(arg) == IF arg = <<>> THEN DefaultMaxQueueSize ELSE arg[1]

\* faulty variant: the queue never reports itself full
FullNever(q, m) == FALSE

\* asyncio.Queue.full(): a maxsize <= 0 means an unbounded queue
Full(q, m) == m > 0 /\ Len(q) >= m

\* exception classes a job can end with, and their base classes
ExcKinds == {"ValueError", "SystemExit", "CancelledError"}

Bases(e) ==
    CASE e = "ValueError"     -> {"ValueError", "Exception", "BaseException"}
      [] e = "SystemExit"     -> {"SystemExit", "BaseException"}
      [] e = "CancelledError" -> {"CancelledError", "BaseException"}

\* faulty variant: the handler names Exception only
CatchesExceptionOnly(e) == "Exception" \in Bases(e)

\* except (Exception, BaseException)
Catches(e) == Bases(e) \cap {"Exception", "BaseException"} # {}

\* faulty variant: the newest item is taken
GetIndexNewest(q) == Len(q)

\* asyncio.Queue.get() takes the oldest item
GetIndex(q) == 1

RemoveAt(q, i) == [k \in 1..(Len(q) - 1) |-> IF k < i THEN q[k] ELSE q[k + 1]]

\* faulty variant: the worker takes the next job without awaiting the current one
WorkerMayGetNoAwait == queue_worker \in {"get", "job"}

\* the loop is back at `await self.queue.get()` only after `await job` ended
WorkerMayGet == queue_worker = "get"

\* the parts a specification does not exercise
QOff ==
    /\ botPc = "off"
    /\ hasLoop = FALSE
    /\ argMaxQueueSize = <<>>
    /\ maxsize = 0
    /\ queue = <<>>
    /\ unfinished = 0
    /\ enqueued = <<>>
    /\ started = <<>>
    /\ jobStatus = [j \in Jobs |-> "new"]
    /\ queue_worker = "none"
    /\ curJob = 0
    /\ closed = FALSE
    /\ logged = {}

Waits == {"message", "reaction_add"}

NoOutcome == [kind |-> "none", val |-> ""]

WfOff ==
    /\ wfPc = "off"
    /\ timeoutArg = <<>>
    /\ checksArg = "default"
    /\ clock = 0
    /\ taskState = [w \in Waits |-> "none"]
    /\ msgResult = <<>>
    /\ reactResult = <<>>
    /\ arrivals = <<>>
    /\ waiter = "idle"
    /\ timerFired = FALSE
    /\ outcome = NoOutcome

VbOff ==
    /\ vbPc = "off"
    /\ log_channel = [ty |-> "NoneType", truthy |-> FALSE]
    /\ log_events = "absent"
    /\ baseInit = FALSE
    /\ vbError = ""
    /\ listeners = {}

Flags == {"connection", "on_ready", "commands", "command_errors"}

LogTaskIds == 1..MaxLogs

NoTask == [pc |-> "unused", viaWebhook |-> 0, viaChannel |-> 0, looked |-> 0,
           cachedAtStart |-> FALSE, waited |-> FALSE]

LgOff ==
    /\ lgPc = "off"
    /\ logFlags = [f \in Flags |-> TRUE]
    /\ channelCfg = "none"
    /\ perms = {}
    /\ ready = FALSE
    /\ logChannel = "None"
    /\ webhooks = 0
    /\ created = 0
    /\ lookups = 0
    /\ logTasks = [t \in LogTaskIds |-> NoTask]
    /\ lastEvent = "none"
    /\ lastLogged = FALSE

MpOff ==
    /\ mpPc = "off"
    /\ mapStore = <<>>
    /\ mapBefore = <<>>
    /\ lastKey = ""
    /\ lastResult = <<>>
    /\ template = [name |-> "", conv |-> ""]
    /\ formatted = <<>>

QInit ==
    /\ botPc = "new"
    /\ hasLoop \in BOOLEAN
    /\ argMaxQueueSize \in {<<>>} \cup {<<n>> : n \in 0..MaxQueueArg}
    /\ maxsize = 0
    /\ queue = <<>>
    /\ unfinished = 0
    /\ enqueued = <<>>
    /\ started = <<>>
    /\ jobStatus = [j \in Jobs |-> "new"]
    /\ queue_worker = "none"
    /\ curJob = 0
    /\ closed = FALSE
    /\ logged = {}
    /\ WfOff
    /\ VbOff
    /\ LgOff
    /\ MpOff

\* QOLBot.__init__: the queue, then the worker task from self.loop, then the base class
QOLBotInit ==
    /\ botPc = "new"
    /\ maxsize' = PopMaxQueueSize(argMaxQueueSize)
    /\ IF hasLoop
         THEN /\ queue_worker' = "scheduled"
              /\ botPc' = "ready"
         ELSE /\ queue_worker' = "none"
              /\ botPc' = "init_failed"
    /\ UNCHANGED <<hasLoop, argMaxQueueSize, queue, unfinished, enqueued, started,
                   jobStatus, curJob, closed, logged>>
    /\ UNCHANGED <<wfvars, vbvars, lgvars, mpvars>>

\* await bot.queue.put(job): waits while the queue is full
Put(j) ==
    /\ botPc = "ready"
    /\ jobStatus[j] = "new"
    /\ ~Full(queue, maxsize)
    /\ queue' = Append(queue, j)
    /\ enqueued' = Append(enqueued, j)
    /\ unfinished' = unfinished + 1
    /\ jobStatus' = [jobStatus EXCEPT ![j] = "queued"]
    /\ UNCHANGED <<botPc, hasLoop, argMaxQueueSize, maxsize, started, queue_worker,
                   curJob, closed, logged>>
    /\ UNCHANGED <<wfvars, vbvars, lgvars, mpvars>>

\* first step of the worker task: it reaches `await self.queue.get()`
QueueWorkerStart ==
    /\ queue_worker = "scheduled"
    /\ queue_worker' = "get"
    /\ UNCHANGED <<botPc, hasLoop, argMaxQueueSize, maxsize, queue, unfinished, enqueued,
                   started, jobStatus, curJob, closed, logged>>
    /\ UNCHANGED <<wfvars, vbvars, lgvars, mpvars>>

\* job = await self.queue.get(); the worker begins `await job`
QueueWorkerGet ==
    /\ WorkerMayGet
    /\ queue # <<>>
    /\ LET j == queue[GetIndex(queue)] IN
         /\ queue' = RemoveAt(queue, GetIndex(queue))
         /\ started' = Append(started, j)
         /\ jobStatus' = [jobStatus EXCEPT ![j] = "running"]
         /\ curJob' = j
    /\ queue_worker' = "job"
    /\ UNCHANGED <<botPc, hasLoop, argMaxQueueSize, maxsize, unfinished, enqueued,
                   closed, logged>>
    /\ UNCHANGED <<wfvars, vbvars, lgvars, mpvars>>

\* finally: self.queue.task_done(); ValueError (not caught) when nothing is unfinished
AfterTaskDone(next) == IF unfinished > 0 THEN next ELSE "failed"

\* `await job` returned
JobReturn ==
    /\ queue_worker = "job"
    /\ jobStatus' = [jobStatus EXCEPT ![curJob] = "returned"]
    /\ unfinished' = IF unfinished > 0 THEN unfinished - 1 ELSE unfinished
    /\ queue_worker' = AfterTaskDone("get")
    /\ curJob' = 0
    /\ UNCHANGED <<botPc, hasLoop, argMaxQueueSize, maxsize, queue, enqueued, started,
                   closed, logged>>
    /\ UNCHANGED <<wfvars, vbvars, lgvars, mpvars>>

\* `await job` ended with exception e: except clause, then finally
JobEnds(e) ==
    /\ jobStatus' = [jobStatus EXCEPT ![curJob] = "raised"]
    /\ unfinished' = IF unfinished > 0 THEN unfinished - 1 ELSE unfinished
    /\ IF Catches(e)
         THEN /\ logged' = logged \cup {curJob}
              /\ queue_worker' = AfterTaskDone("get")
         ELSE /\ logged' = logged
              /\ queue_worker' =
                    AfterTaskDone(IF e = "CancelledError" THEN "cancelled" ELSE "failed")
    /\ curJob' = 0

JobRaise(e) ==
    /\ queue_worker = "job"
    /\ JobEnds(e)
    /\ UNCHANGED <<botPc, hasLoop, argMaxQueueSize, maxsize, queue, enqueued, started,
                   closed>>
    /\ UNCHANGED <<wfvars, vbvars, lgvars, mpvars>>

\* QOLBot.close(): self._queue_worker.cancel(...)
\*  - a worker that has not started, or waits in queue.get(), ends with CancelledError;
\*  - a worker awaiting a job has CancelledError thrown into the job, which lets it
\*    propagate into the worker's try statement (jobs do not suppress cancellation);
\*  - cancelling a finished worker changes nothing.
Close ==
    /\ botPc = "ready"
    /\ closed' = TRUE
    /\ \/ /\ queue_worker \in {"scheduled", "get"}
          /\ queue_worker' = "cancelled"
          /\ UNCHANGED <<jobStatus, unfinished, logged, curJob>>
       \/ /\ queue_worker = "job"
          /\ JobEnds("CancelledError")
    /\ UNCHANGED <<botPc, hasLoop, argMaxQueueSize, maxsize, queue, enqueued, started>>
    /\ UNCHANGED <<wfvars, vbvars, lgvars, mpvars>>

QNext ==
    \/ QOLBotInit
    \/ \E j \in Jobs : Put(j)
    \/ QueueWorkerStart
    \/ QueueWorkerGet
    \/ JobReturn
    \/ \E e \in ExcKinds : JobRaise(e)
    \/ Close

SpecQ == QInit /\ [][QNext]_vars

(***************************************************************************)
(* Claims about the queue worker                                           *)
(***************************************************************************)
Finished(j) == jobStatus[j] \in {"returned", "raised"}

\* C1: the worker starts the jobs in exactly the order in which they entered the
\* queue: the sequence of started jobs is always a prefix of the sequence of
\* enqueued jobs.
C1_StartsInEnqueueOrder ==
    /\ Len(started) <= Len(enqueued)
    /\ \A i \in 1..Len(started) : started[i] = enqueued[i]

C1_Witness ==
    /\ Len(started) >= 2
    /\ \E i \in 1..Len(enqueued) : enqueued[i] # i

\* C2: at most one queued job is in execution at any moment, and every job the
\* worker started before the latest one has already finished.
C2_OneJobAtATime ==
    /\ Cardinality({j \in Jobs : jobStatus[j] = "running"}) <= 1
    /\ \A i \in 1..(Len(started) - 1) : Finished(started[i])
    /\ (queue_worker = "job") <=> (\E j \in Jobs : jobStatus[j] = "running")

C2_Witness ==
    /\ Len(started) >= 2
    /\ queue_worker = "job"
    /\ queue # <<>>

\* C3: a job that ends with any exception leaves the worker loop running: the
\* failure is logged, nothing propagates out of the worker, the jobs still in the
\* queue stay there and the worker is back at taking the next one.
C3_FailureDoesNotStopWorker ==
    [][(queue_worker = "job" /\ jobStatus'[curJob] = "raised")
          => /\ queue_worker' = "get"
             /\ curJob \in logged'
             /\ queue' = queue]_vars

C3_Witness ==
    \E i, k \in 1..Len(started) :
        /\ i < k
        /\ jobStatus[started[i]] = "raised"
        /\ started[i] \in logged
        /\ jobStatus[started[k]] = "returned"

\* C4 (as claimed): once close() has been called no further queued job is started.
C4_NoJobStartedAfterClose ==
    [][closed => started' = started]_vars

\* C13 (as claimed): constructing a QOLBot completes without error, creates the
\* queue with capacity max_queue_size (default 30) and leaves one worker scheduled.
C13_ConstructionCompletes ==
    botPc # "new" =>
        /\ botPc = "ready"
        /\ maxsize = (IF argMaxQueueSize = <<>> THEN 30 ELSE argMaxQueueSize[1])
        /\ queue_worker # "none"

\* the scheduling of the event loop and of terminating jobs: the worker task gets to
\* run, and a job that is being awaited ends by returning or raising
FairSpecQ ==
    /\ SpecQ
    /\ WF_vars(QueueWorkerStart)
    /\ WF_vars(QueueWorkerGet)
    /\ WF_vars(JobReturn \/ \E e \in ExcKinds : JobRaise(e))

\* C14: as long as the bot is not closed and every job terminates, every job that
\* was enqueued is eventually taken from the queue and run by the worker.
C14_EnqueuedJobEventuallyRuns ==
    \A j \in Jobs : (jobStatus[j] = "queued") ~> (jobStatus[j] # "queued" \/ closed)

C14_Witness ==
    /\ ~closed
    /\ Len(started) >= 2
    /\ \E i \in 1..(Len(started) - 1) : jobStatus[started[i]] = "raised"
    /\ jobStatus[started[Len(started)]] = "running"

\* C15 (as claimed): in every reachable state the number of jobs waiting in the
\* queue is at most max_queue_size (default 30).
C15_QueueWithinMaxQueueSize ==
    botPc = "ready" =>
        Len(queue) <= (IF argMaxQueueSize = <<>> THEN 30 ELSE argMaxQueueSize[1])

\* C15 (amended): for a positive max_queue_size (default 30) the number of jobs
\* waiting in the queue is at most max_queue_size, and an enqueue on a full queue
\* adds nothing until the worker has removed a job; a max_queue_size of 0 makes the
\* queue unbounded.
C15_QueueWithinPositiveMaxQueueSize ==
    LET size == IF argMaxQueueSize = <<>> THEN 30 ELSE argMaxQueueSize[1] IN
      (botPc = "ready" /\ size > 0) =>
          /\ Len(queue) <= size
          /\ Len(queue) = size => ~(\E j \in Jobs : ENABLED Put(j))

C15_Witness ==
    /\ argMaxQueueSize = <<2>>
    /\ Len(queue) = 2
    /\ \E j \in Jobs : jobStatus[j] = "new"

(***************************************************************************)
(* wf_msg_or_reaction                                                      *)
(* asyncio.wait wraps the two wait_for coroutines in tasks (Python 3.9 and *)
(* 3.10, the versions Task.cancel(msg) and coroutine arguments to          *)
(* asyncio.wait both work on).  Time is counted in whole seconds.          *)
(***************************************************************************)
DefaultTimeout == 120

TimeoutArgs == {<<>>} \cup {<<n>> : n \in 0..MaxTimeout}

\* faulty variant: only None is replaced by the default
EffectiveTimeoutNoneOnly(t) == IF t = <<>> THEN DefaultTimeout ELSE t[1]

\* timeout or 120.0: None and 0 are falsy
EffectiveTimeout(t) == IF t = <<>> \/ t[1] = 0 THEN DefaultTimeout ELSE t[1]

\* **pairs, as {content: emoji}
Pairs ==
    [c \in {"yes", "no", "party"} |->
        CASE c = "yes" -> "ok"
          [] c = "no" -> "cross"
          [] OTHER -> "<:party:1>"]

PairValues == {Pairs[c] : c \in DOMAIN Pairs}

\* the context of the call
CtxAuthor == "author"
CtxChannel == "here"
WatchedMessage == "prompt"

Contents == {"Yes", "no", "maybe", ""}
Users == {"author", "other"}
Channels == {"here", "elsewhere"}
\* unicode emojis are strings; "PartyEmoji" is a custom emoji object
Emojis == {"ok", "cross", "other", "PartyEmoji"}
Messages == {"prompt", "older"}

MessageEvents == [content : Contents, author : Users, channel : Channels]
ReactionEvents == [emoji : Emojis, user : Users, message : Messages]

\* str(emoji): a custom emoji renders as <:name:id>, a string is itself
Str(e) == IF e = "PartyEmoji" THEN "<:party:1>" ELSE e

\* str.lower()
Lower(c) == IF c = "Yes" THEN "yes" ELSE c

\* faulty variant: the author of the message is not compared
DefaultMessageCheckAnyAuthor(m) ==
    /\ m.content # ""
    /\ Lower(m.content) \in DOMAIN Pairs
    /\ m.channel = CtxChannel

\* checks[0] when no checks are supplied
DefaultMessageCheck(m) ==
    /\ m.content # ""
    /\ Lower(m.content) \in DOMAIN Pairs
    /\ m.author = CtxAuthor
    /\ m.channel = CtxChannel

\* reaction_check
DefaultReactionCheck(r) ==
    /\ Str(r.emoji) \in PairValues
    /\ r.user = CtxAuthor
    /\ r.message = WatchedMessage

\* what a check can answer for an event: a supplied check is any callable, which
\* may accept, reject or raise
MessageVerdicts(e) ==
    IF checksArg = "default"
      THEN IF DefaultMessageCheck(e) THEN {"true"} ELSE {"false"}
      ELSE {"true", "false", "raise"}

ReactionVerdicts(e) ==
    IF checksArg = "default"
      THEN IF DefaultReactionCheck(e) THEN {"true"} ELSE {"false"}
      ELSE {"true", "false", "raise"}

\* the exception a wait ends with when its check raised
CheckError(w) == IF w = "message" THEN "MessageCheckError" ELSE "ReactionCheckError"

WfInit ==
    /\ wfPc = "start"
    /\ timeoutArg \in TimeoutArgs
    /\ checksArg \in {"default", "custom"}
    /\ clock = 0
    /\ taskState = [w \in Waits |-> "none"]
    /\ msgResult = <<>>
    /\ reactResult = <<>>
    /\ arrivals = <<>>
    /\ waiter = "idle"
    /\ timerFired = FALSE
    /\ outcome = NoOutcome
    /\ QOff
    /\ VbOff
    /\ LgOff
    /\ MpOff

\* the two wait_for calls and the entry into asyncio.wait
WfCall ==
    /\ wfPc = "start"
    /\ wfPc' = "waiting"
    /\ taskState' = [w \in Waits |-> "pending"]
    /\ waiter' = "waiting"
    /\ UNCHANGED <<timeoutArg, checksArg, clock, msgResult, reactResult, arrivals,
                   timerFired, outcome>>
    /\ UNCHANGED <<qvars, vbvars, lgvars, mpvars>>

\* a second passes while asyncio.wait is waiting and its timeout is not due
Tick ==
    /\ wfPc = "waiting"
    /\ waiter = "waiting"
    /\ clock < EffectiveTimeout(timeoutArg)
    /\ clock' = clock + 1
    /\ UNCHANGED <<wfPc, timeoutArg, checksArg, taskState, msgResult, reactResult,
                   arrivals, waiter, timerFired, outcome>>
    /\ UNCHANGED <<qvars, vbvars, lgvars, mpvars>>

\* the timeout handle of asyncio.wait releases the waiter
TimerFire ==
    /\ wfPc = "waiting"
    /\ waiter = "waiting"
    /\ clock >= EffectiveTimeout(timeoutArg)
    /\ waiter' = "released"
    /\ timerFired' = TRUE
    /\ UNCHANGED <<wfPc, timeoutArg, checksArg, clock, taskState, msgResult, reactResult,
                   arrivals, outcome>>
    /\ UNCHANGED <<qvars, vbvars, lgvars, mpvars>>

\* a wait completes: its done callback releases the waiter
Complete(w, st) ==
    /\ taskState' = [taskState EXCEPT ![w] = st]
    /\ arrivals' = Append(arrivals, w)
    /\ waiter' = "released"

\* a message is dispatched while the message wait is pending
MessageEvent(e) ==
    /\ wfPc = "waiting"
    /\ taskState["message"] = "pending"
    /\ \E v \in MessageVerdicts(e) :
         \/ /\ v = "true"
            /\ Complete("message", "result")
            /\ msgResult' = <<e>>
         \/ /\ v = "raise"
            /\ Complete("message", "exception")
            /\ msgResult' = msgResult
    /\ UNCHANGED <<wfPc, timeoutArg, checksArg, clock, reactResult, timerFired, outcome>>
    /\ UNCHANGED <<qvars, vbvars, lgvars, mpvars>>

\* a reaction is dispatched while the reaction wait is pending
ReactionEvent(e) ==
    /\ wfPc = "waiting"
    /\ taskState["reaction_add"] = "pending"
    /\ \E v \in ReactionVerdicts(e) :
         \/ /\ v = "true"
            /\ Complete("reaction_add", "result")
            /\ reactResult' = <<e>>
         \/ /\ v = "raise"
            /\ Complete("reaction_add", "exception")
            /\ reactResult' = reactResult
    /\ UNCHANGED <<wfPc, timeoutArg, checksArg, clock, msgResult, timerFired, outcome>>
    /\ UNCHANGED <<qvars, vbvars, lgvars, mpvars>>

Return(v) == [kind |-> "return", val |-> v]
Raise(x) == [kind |-> "raise", val |-> x]

\* pairs[key]
PairsLookup(key) == IF key \in DOMAIN Pairs THEN Return(Pairs[key]) ELSE Raise("KeyError")

\* faulty variant: the pending waits are left alone
CancelNone(pending) == {}

\* for task in pending: task.cancel()
CancelSet(pending) == pending

\* lines 55-63 for the task that done.pop() handed out
OutcomeOf(t) ==
    IF taskState[t] = "exception"
      THEN Raise(CheckError(t))
      ELSE IF t = "message"
             THEN PairsLookup(Lower(msgResult[1].content))
             ELSE Return(reactResult[1].emoji)

\* the helper resumes from asyncio.wait and runs to its end; done.pop() takes an
\* arbitrary member of the set of finished tasks
WfResume ==
    /\ wfPc = "waiting"
    /\ waiter = "released"
    /\ LET done == {w \in Waits : taskState[w] \in {"result", "exception"}}
           pending == {w \in Waits : taskState[w] = "pending"}
       IN /\ taskState' = [w \in Waits |->
                             IF w \in CancelSet(pending) THEN "cancelled" ELSE taskState[w]]
          /\ IF done = {}
               THEN outcome' = Raise("TimeoutError")
               ELSE \E t \in done : outcome' = OutcomeOf(t)
    /\ wfPc' = "done"
    /\ UNCHANGED <<timeoutArg, checksArg, clock, msgResult, reactResult, arrivals, waiter,
                   timerFired>>
    /\ UNCHANGED <<qvars, vbvars, lgvars, mpvars>>

WfNext ==
    \/ WfCall
    \/ Tick
    \/ TimerFire
    \/ \E e \in MessageEvents : MessageEvent(e)
    \/ \E e \in ReactionEvents : ReactionEvent(e)
    \/ WfResume

SpecWf == WfInit /\ [][WfNext]_vars

(***************************************************************************)
(* Claims about wf_msg_or_reaction                                         *)
(***************************************************************************)
\* C5 (as claimed): when a message satisfying the message check arrives before any
\* reaction and before the timeout, the helper returns pairs[content.lower()].
C5_MessageFirstReturnsMapping ==
    (/\ wfPc = "done"
     /\ ~timerFired
     /\ arrivals # <<>>
     /\ arrivals[1] = "message"
     /\ taskState["message"] = "result")
       => outcome = PairsLookup(Lower(msgResult[1].content))

\* C6 (as claimed): when a reaction satisfying the reaction check arrives before any
\* message and before the timeout, the helper returns the emoji of that reaction.
C6_ReactionFirstReturnsEmoji ==
    (/\ wfPc = "done"
     /\ ~timerFired
     /\ arrivals # <<>>
     /\ arrivals[1] = "reaction_add"
     /\ taskState["reaction_add"] = "result")
       => outcome = Return(reactResult[1].emoji)

\* an event completed its wait within the timeout the caller passed (None: no limit)
OccurredWithinPassedTimeout ==
    /\ arrivals # <<>>
    /\ (timeoutArg = <<>> \/ clock <= timeoutArg[1])

\* C7 (as claimed): for every timeout value the caller passes, if neither a matching
\* message nor a matching reaction occurs within that timeout, the helper raises
\* asyncio.TimeoutError.
C7_PassedTimeoutRaises ==
    (wfPc = "done" /\ ~OccurredWithinPassedTimeout) => outcome = Raise("TimeoutError")

\* C7 (amended): the timeout that counts is the passed value, or 120 s when the
\* caller passes 0 or None.  If no wait has completed when the helper resumes after
\* that time, it raises asyncio.TimeoutError; it raises TimeoutError in no other case
\* and never before that time has passed.
C7_EffectiveTimeoutRaises ==
    LET deadline == IF timeoutArg \in {<<>>, <<0>>} THEN 120 ELSE timeoutArg[1] IN
      /\ (wfPc = "done" /\ arrivals = <<>>)
            => (outcome = Raise("TimeoutError") /\ clock = deadline)
      /\ outcome = Raise("TimeoutError") => (arrivals = <<>> /\ clock = deadline)
      /\ clock <= deadline

C7_Witness ==
    /\ wfPc = "done"
    /\ timeoutArg = <<0>>
    /\ outcome = Raise("TimeoutError")

\* C8: on every exit of the helper (value returned, exception raised, timeout) no
\* wait is still pending: each wait has either resolved or been cancelled.
C8_NoWaitLeftPending ==
    wfPc = "done" =>
        \A w \in Waits :
            /\ taskState[w] \in {"result", "exception", "cancelled"}
            /\ taskState[w] = "cancelled" <=> (\A i \in 1..Len(arrivals) : arrivals[i] # w)

C8_Witness ==
    /\ wfPc = "done"
    /\ outcome.kind = "return"
    /\ taskState["reaction_add"] = "cancelled"

\* C9 (as claimed): if the wait that resolved first finished with an exception, the
\* helper re-raises that exception instead of returning a value.
C9_FirstExceptionReraised ==
    (/\ wfPc = "done"
     /\ arrivals # <<>>
     /\ taskState[arrivals[1]] = "exception")
       => outcome = Raise(CheckError(arrivals[1]))

\* C16 (as claimed): if both waits have completed by the time the helper resumes,
\* the helper still gives the result of the wait that completed first.
C16_FirstCompletedWins ==
    (wfPc = "done" /\ Len(arrivals) = 2) => outcome = OutcomeOf(arrivals[1])

\* C18: with the default checks the helper resolves only on a message by ctx.author
\* in ctx.channel whose lower-cased content is a key of pairs, or on a reaction by
\* ctx.author on the watched message whose emoji text is a value of pairs; what it
\* returns corresponds to a value of pairs, and it raises nothing but TimeoutError.
C18_DefaultChecksResolveOnlyOnMatches ==
    checksArg = "default" =>
        /\ msgResult # <<>> =>
              /\ msgResult[1].author = "author"
              /\ msgResult[1].channel = "here"
              /\ msgResult[1].content \in {"Yes", "no"}
        /\ reactResult # <<>> =>
              /\ reactResult[1].user = "author"
              /\ reactResult[1].message = "prompt"
              /\ reactResult[1].emoji \in {"ok", "cross", "PartyEmoji"}
        /\ outcome.kind = "return" =>
              /\ arrivals # <<>>
              /\ Str(outcome.val) \in {"ok", "cross", "<:party:1>"}
        /\ outcome.kind = "raise" => outcome.val = "TimeoutError"

C18_Witness ==
    /\ wfPc = "done"
    /\ checksArg = "default"
    /\ msgResult # <<>>
    /\ msgResult[1].content = "Yes"
    /\ outcome = Return("ok")

(***************************************************************************)
(* VerboseBot.__init__                                                     *)
(***************************************************************************)
\* values a caller can pass as log_channel, by type and truth value
ChannelArgs ==
    {[ty |-> t, truthy |-> b] : t \in {"int", "bool", "str", "float", "list"}, b \in BOOLEAN}
      \cup {[ty |-> "NoneType", truthy |-> FALSE]}

\* values a caller can pass as log_events, by type
EventsArgs ==
    {"absent", "LogEvents", "dict", "OrderedDict", "MappingProxyType", "list", "str",
     "NoneType"}

\* kwargs.pop("log_events", LogEvents())
PopLogEvents(arg) == IF arg = "absent" THEN "LogEvents" ELSE arg

\* isinstance(v, int): bool is a subclass of int
IsInstanceInt(v) == v.ty \in {"int", "bool"}

\* isinstance(v, (dict, LogEvents))
IsInstanceDict(ty) == ty \in {"dict", "LogEvents", "OrderedDict"}

\* collections.abc.Mapping
IsMapping(ty) == ty \in {"dict", "LogEvents", "OrderedDict", "MappingProxyType"}

\* faulty variant: the channel id is not validated
ChannelRejectedNever(v) == FALSE

\* self._logging_channel_id and not isinstance(self._logging_channel_id, int)
ChannelRejected(v) == v.truthy /\ ~IsInstanceInt(v)

VbInit ==
    /\ vbPc = "new"
    /\ log_channel \in ChannelArgs
    /\ log_events \in EventsArgs
    /\ baseInit = FALSE
    /\ vbError = ""
    /\ listeners = {}
    /\ QOff
    /\ WfOff
    /\ LgOff
    /\ MpOff

VerboseBotInit ==
    /\ vbPc = "new"
    /\ IF ChannelRejected(log_channel)
         THEN /\ vbPc' = "type_error"
              /\ vbError' = "Logging channel ID is not an integer."
              /\ UNCHANGED <<baseInit, listeners>>
         ELSE IF ~IsInstanceDict(PopLogEvents(log_events))
                THEN /\ vbPc' = "type_error"
                     /\ vbError' = "Logging events is not a dictionary or LogEvents class."
                     /\ UNCHANGED <<baseInit, listeners>>
                ELSE /\ vbPc' = "constructed"
                     /\ baseInit' = TRUE
                     /\ listeners' = {"on_command_error", "on_ready"}
                     /\ vbError' = vbError
    /\ UNCHANGED <<log_channel, log_events>>
    /\ UNCHANGED <<qvars, wfvars, lgvars, mpvars>>

VbNext == VerboseBotInit

SpecVB == VbInit /\ [][VbNext]_vars

\* C10 (as claimed): every log_channel value that is not an integer, and every
\* log_events value that is not a mapping, makes the constructor raise TypeError
\* before the base class is initialised and before any listener is registered.
C10_NonIntegerChannelRejected ==
    (/\ vbPc \in {"constructed", "type_error"}
     /\ (~IsInstanceInt(log_channel) \/ ~IsMapping(PopLogEvents(log_events))))
       => (vbPc = "type_error" /\ ~baseInit /\ listeners = {})

\* C10 (amended): every log_channel value that is truthy and not an integer, and
\* every log_events value that is not a mapping, makes the constructor raise
\* TypeError before the base class is initialised and before any listener is
\* registered; None and the other falsy values are accepted as log_channel.
C10_TruthyNonIntegerChannelRejected ==
    /\ (/\ vbPc \in {"constructed", "type_error"}
        /\ \/ (log_channel.truthy /\ log_channel.ty \notin {"int", "bool"})
           \/ ~IsMapping(PopLogEvents(log_events)))
          => (vbPc = "type_error" /\ vbError # "" /\ ~baseInit /\ listeners = {})
    /\ (vbPc = "constructed" /\ log_channel.ty \notin {"int", "bool"})
          => ~log_channel.truthy

C10_Witness ==
    /\ vbPc = "type_error"
    /\ log_channel = [ty |-> "str", truthy |-> TRUE]
    /\ IsMapping(PopLogEvents(log_events))
    /\ ~baseInit

(***************************************************************************)
(* ext.Mapping                                                             *)
(* Text is a sequence of pieces, so that "{" + str(key) + "}" is a         *)
(* concatenation.                                                          *)
(***************************************************************************)
\* keys: field names, and the integer 1
MapKeys == {"a", "b", "int:1"}

MapValues == {<<"A">>, <<"B">>}

\* replacement fields of a template: {name} and {name!r}
Fields == [name : {"a", "b"}, conv : {"", "r"}]

\* str(key)
StrKey(k) == IF k = "int:1" THEN "1" ELSE k

\* Mapping.__missing__
Missing(key) == <<"{", StrKey(key), "}">>

\* dict.__getitem__ of a dict subclass that defines __missing__
GetItem(store, key) == IF key \in DOMAIN store THEN store[key] ELSE Missing(key)

\* the !r conversion of a text: repr() puts it in quotes
ApplyConv(text, conv) == IF conv = "r" THEN <<"'">> \o text \o <<"'">> ELSE text

\* str.format_map for one replacement field
FormatField(store, f) == ApplyConv(GetItem(store, f.name), f.conv)

\* the replacement field as written in the template
Source(f) == <<"{", f.name>> \o (IF f.conv = "" THEN <<>> ELSE <<"!", f.conv>>) \o <<"}">>

MpInit ==
    /\ mpPc = "idle"
    /\ mapStore \in UNION {[D -> MapValues] : D \in SUBSET MapKeys}
    /\ mapBefore = <<>>
    /\ lastKey = ""
    /\ lastResult = <<>>
    /\ template = [name |-> "", conv |-> ""]
    /\ formatted = <<>>
    /\ QOff
    /\ WfOff
    /\ VbOff
    /\ LgOff

\* mapping[key]
MapLookup(k) ==
    /\ mpPc # "off"
    /\ mpPc' = "looked"
    /\ lastKey' = k
    /\ lastResult' = GetItem(mapStore, k)
    /\ mapBefore' = mapStore
    /\ UNCHANGED <<mapStore, template, formatted>>
    /\ UNCHANGED <<qvars, wfvars, vbvars, lgvars>>

\* template.format_map(mapping) for a template of one replacement field
MapFormat(f) ==
    /\ mpPc # "off"
    /\ mpPc' = "formatted"
    /\ template' = f
    /\ formatted' = FormatField(mapStore, f)
    /\ mapBefore' = mapStore
    /\ UNCHANGED <<mapStore, lastKey, lastResult>>
    /\ UNCHANGED <<qvars, wfvars, vbvars, lgvars>>

MpNext ==
    \/ \E k \in MapKeys : MapLookup(k)
    \/ \E f \in Fields : MapFormat(f)

SpecMap == MpInit /\ [][MpNext]_vars

\* C12 (as claimed): a present key gives its stored value, an absent key gives the
\* text "{key}" and is not inserted, and formatting a template leaves every
\* placeholder of an unknown key as it was written.
C12_UnknownPlaceholdersIntact ==
    /\ mpPc = "looked" =>
          /\ mapStore = mapBefore
          /\ lastKey \in DOMAIN mapBefore => lastResult = mapBefore[lastKey]
          /\ lastKey \notin DOMAIN mapBefore => lastResult = <<"{", StrKey(lastKey), "}">>
    /\ mpPc = "formatted" =>
          /\ mapStore = mapBefore
          /\ template.name \notin DOMAIN mapBefore => formatted = Source(template)

(***************************************************************************)
(* VerboseBot: the event handlers, log() and _log_bg                       *)
(* The bot is constructed; the permissions in the log channel and the      *)
(* configuration do not change during a run, and the calls to the chat     *)
(* platform succeed.                                                       *)
(***************************************************************************)
Events == {"connect", "disconnect", "command", "command_completion", "command_error",
           "ready"}

\* the key of self._logging_events each handler tests
Gate(ev) ==
    CASE ev \in {"connect", "disconnect"} -> "connection"
      [] ev \in {"command", "command_completion"} -> "commands"
      [] ev = "command_error" -> "commands"
      [] ev = "ready" -> "connection"

\* self.get_channel(self._logging_channel_id): the channels are known once ready
GetChannel(isReady) == IF channelCfg = "found" /\ isReady THEN "chan" ELSE "None"

\* not self.is_ready()
MustWait == ~ready

\* faulty variant: a plain message is preferred to a webhook
RouteChannelFirst(p) ==
    IF "send_messages" \in p THEN "channel"
    ELSE IF "manage_webhooks" \in p THEN "webhook" ELSE "nothing"

\* the branch of _log_bg taken for permissions p
Route(p) ==
    IF "manage_webhooks" \in p THEN "webhook"
    ELSE IF "send_messages" \in p THEN "channel" ELSE "nothing"

\* where a task goes once self._log_channel is chan
AfterChannel(chan) ==
    IF chan = "None" THEN "done"
    ELSE CASE Route(perms) = "webhook" -> "webhooks"
           [] Route(perms) = "channel" -> "send"
           [] OTHER -> "done"

LgInit ==
    /\ lgPc = "on"
    /\ logFlags \in [Flags -> BOOLEAN]
    /\ channelCfg \in {"none", "missing", "found"}
    /\ perms \in SUBSET {"manage_webhooks", "send_messages"}
    /\ ready = FALSE
    /\ logChannel = "None"
    /\ webhooks \in {0, 1}
    /\ created = 0
    /\ lookups = 0
    /\ logTasks = [t \in LogTaskIds |-> NoTask]
    /\ lastEvent = "none"
    /\ lastLogged = FALSE
    /\ QOff
    /\ WfOff
    /\ VbOff
    /\ MpOff

\* the gateway session becomes ready
BecomeReady ==
    /\ lgPc = "on"
    /\ ~ready
    /\ ready' = TRUE
    /\ UNCHANGED <<lgPc, logFlags, channelCfg, perms, logChannel, webhooks, created,
                   lookups, logTasks, lastEvent, lastLogged>>
    /\ UNCHANGED <<qvars, wfvars, vbvars, mpvars>>

FreeTasks == {t \in LogTaskIds : logTasks[t].pc = "unused"}

\* an event handler runs; when its flag is set it calls log(), which creates a task
HandleEvent(ev) ==
    /\ lgPc = "on"
    /\ ev \in {"command", "command_completion", "command_error", "ready"} => ready
    /\ lastEvent' = ev
    /\ lastLogged' = logFlags[Gate(ev)]
    /\ IF logFlags[Gate(ev)]
         THEN /\ FreeTasks # {}
              /\ LET t == CHOOSE x \in FreeTasks : \A y \in FreeTasks : x <= y IN
                   logTasks' = [logTasks EXCEPT ![t].pc = "start"]
         ELSE logTasks' = logTasks
    /\ UNCHANGED <<lgPc, logFlags, channelCfg, perms, ready, logChannel, webhooks, created,
                   lookups>>
    /\ UNCHANGED <<qvars, wfvars, vbvars, mpvars>>

\* lines 101-107 and 121-123: the lookup, then the choice of the branch
LookUp(t) ==
    /\ logChannel' = GetChannel(ready)
    /\ lookups' = lookups + 1
    /\ logTasks' = [logTasks EXCEPT ![t].looked = @ + 1,
                                    ![t].pc = AfterChannel(GetChannel(ready))]

\* a task starts: lines 98-107
LogBegin(t) ==
    /\ logTasks[t].pc = "start"
    /\ IF logChannel = "None"
         THEN IF MustWait
                THEN /\ logTasks' = [logTasks EXCEPT ![t].pc = "wait_ready",
                                                     ![t].waited = TRUE]
                     /\ UNCHANGED <<logChannel, lookups>>
                ELSE LookUp(t)
         ELSE /\ logTasks' = [logTasks EXCEPT ![t].cachedAtStart = TRUE,
                                              ![t].pc = AfterChannel(logChannel)]
              /\ UNCHANGED <<logChannel, lookups>>
    /\ UNCHANGED <<lgPc, logFlags, channelCfg, perms, ready, webhooks, created, lastEvent,
                   lastLogged>>
    /\ UNCHANGED <<qvars, wfvars, vbvars, mpvars>>

\* wait_until_ready() returns: line 101 follows without a second look at the cache
LogWake(t) ==
    /\ logTasks[t].pc = "wait_ready"
    /\ ready
    /\ LookUp(t)
    /\ UNCHANGED <<lgPc, logFlags, channelCfg, perms, ready, webhooks, created, lastEvent,
                   lastLogged>>
    /\ UNCHANGED <<qvars, wfvars, vbvars, mpvars>>

\* await self._log_channel.webhooks() returns the list of this moment
LogWebhooks(t) ==
    /\ logTasks[t].pc = "webhooks"
    /\ logTasks' = [logTasks EXCEPT ![t].pc = IF webhooks = 0 THEN "create" ELSE "send_hook"]
    /\ UNCHANGED <<lgPc, logFlags, channelCfg, perms, ready, logChannel, webhooks, created,
                   lookups, lastEvent, lastLogged>>
    /\ UNCHANGED <<qvars, wfvars, vbvars, mpvars>>

\* await self._log_channel.create_webhook(name="VerboseBot Logging")
LogCreateWebhook(t) ==
    /\ logTasks[t].pc = "create"
    /\ webhooks' = webhooks + 1
    /\ created' = created + 1
    /\ logTasks' = [logTasks EXCEPT ![t].pc = "send_hook"]
    /\ UNCHANGED <<lgPc, logFlags, channelCfg, perms, ready, logChannel, lookups, lastEvent,
                   lastLogged>>
    /\ UNCHANGED <<qvars, wfvars, vbvars, mpvars>>

\* await webhook.send(...), then print
LogSendWebhook(t) ==
    /\ logTasks[t].pc = "send_hook"
    /\ logTasks' = [logTasks EXCEPT ![t].viaWebhook = @ + 1, ![t].pc = "done"]
    /\ UNCHANGED <<lgPc, logFlags, channelCfg, perms, ready, logChannel, webhooks, created,
                   lookups, lastEvent, lastLogged>>
    /\ UNCHANGED <<qvars, wfvars, vbvars, mpvars>>

\* await self._log_channel.send(...), then print
LogSendChannel(t) ==
    /\ logTasks[t].pc = "send"
    /\ logTasks' = [logTasks EXCEPT ![t].viaChannel = @ + 1, ![t].pc = "done"]
    /\ UNCHANGED <<lgPc, logFlags, channelCfg, perms, ready, logChannel, webhooks, created,
                   lookups, lastEvent, lastLogged>>
    /\ UNCHANGED <<qvars, wfvars, vbvars, mpvars>>

LgNext ==
    \/ BecomeReady
    \/ \E ev \in Events : HandleEvent(ev)
    \/ \E t \in LogTaskIds : LogBegin(t)
    \/ \E t \in LogTaskIds : LogWake(t)
    \/ \E t \in LogTaskIds : LogWebhooks(t)
    \/ \E t \in LogTaskIds : LogCreateWebhook(t)
    \/ \E t \in LogTaskIds : LogSendWebhook(t)
    \/ \E t \in LogTaskIds : LogSendChannel(t)

SpecLog == LgInit /\ [][LgNext]_vars

(***************************************************************************)
(* Claims about VerboseBot logging                                         *)
(***************************************************************************)
Delivered(t) == logTasks[t].viaWebhook + logTasks[t].viaChannel

\* C11: a line goes through a webhook, and not as a channel message, when the bot
\* has manage_webhooks in the log channel; otherwise as a channel message when it
\* has send_messages; otherwise nowhere.  No line is delivered more than once.
C11_DeliveryFollowsPermissions ==
    \A t \in LogTaskIds :
        /\ Delivered(t) <= 1
        /\ logTasks[t].viaWebhook > 0 => "manage_webhooks" \in perms
        /\ logTasks[t].viaChannel > 0 =>
              ("manage_webhooks" \notin perms /\ "send_messages" \in perms)
        /\ (logTasks[t].pc = "done" /\ channelCfg = "found") =>
              /\ "manage_webhooks" \in perms => logTasks[t].viaWebhook = 1
              /\ ("manage_webhooks" \notin perms /\ "send_messages" \in perms)
                    => logTasks[t].viaChannel = 1
              /\ perms = {} => Delivered(t) = 0

C11_Witness ==
    /\ perms = {"manage_webhooks", "send_messages"}
    /\ \E t \in LogTaskIds : logTasks[t].pc = "done" /\ logTasks[t].viaWebhook = 1

\* the flag the claim assigns to each event
OwnFlag(ev) ==
    CASE ev \in {"connect", "disconnect"} -> "connection"
      [] ev \in {"command", "command_completion"} -> "commands"
      [] ev = "command_error" -> "command_errors"
      [] ev = "ready" -> "on_ready"

\* C17 (as claimed): each flag of LogEvents gates its own event: a line is logged
\* for an event iff the flag of that event is true.
C17_EachFlagGatesItsOwnEvent ==
    lastEvent # "none" => (lastLogged <=> logFlags[OwnFlag(lastEvent)])

\* C19 (as claimed): nothing is sent before the bot is ready, and once the channel
\* handle has been found and cached it is not looked up again.
C19_NoLookupOnceCached ==
    [][/\ logChannel = "chan" => lookups' = lookups
       /\ (\E t \in LogTaskIds : Delivered(t)' > Delivered(t)) => ready]_vars

\* C20 (as claimed): across any interleaving of log tasks the bot creates at most
\* one webhook for the log channel.
C20_AtMostOneWebhookCreated ==
    created <= 1

====
